---- MODULE Spec2Model ----
(***************************************************************************)
(* Session-correlated delegated message exchange of the currency agents:   *)
(*   simple_currency_agent.py      chat protocol, direct mode              *)
(*   currency_uagent.py            CurrencyUAgent, direct mode             *)
(*   structured_currency_agent.py  chat protocol + structured-output       *)
(*                                 client protocol, delegated mode         *)
(* A handler invocation is a task.  A task runs from one await to the next *)
(* without interruption (single-threaded cooperative scheduling); every    *)
(* action below is one such segment, ending with the await it reaches and  *)
(* the outcome of that await.                                              *)
(***************************************************************************)
EXTENDS Integers, Sequences, FiniteSets, TLC

\* ---------------------------------------------------------------- bounds
\* Inbound messages delivered in one run.
MaxMsgs == 3
\* Items a collaborator stream yields at most.
MaxItems == 2
\* Chat messages that arrive where the extraction agent answers each request.
MaxChats == 2
\* Requests CurrencyUAgent receives where each stream call is recorded.
MaxRequests == 2

\* ------------------------------------------------------------ vocabulary
Deployments == {"simple", "structured", "uagent"}
Senders == {"A", "B"}
Sessions == {"s1", "s2"}
AI_AGENT_ADDRESS == "agent1qtlp"
None == "None"
Unset == "Unset"
PartKinds == {"text", "other"}
\* Two handler tasks can be in flight at once.
Slots == {1, 2}

RECURSIVE SeqsUpTo(_, _)
SeqsUpTo(S, n) ==
    IF n = 0 THEN {<<>>}
    ELSE LET shorter == SeqsUpTo(S, n - 1)
         IN  shorter \cup {Append(q, e) : q \in {r \in shorter : Len(r) = n - 1}, e \in S}

\* Contents of the inbound chat messages: no text part, one text part, two
\* text parts among other parts.
Contents ==
    { <<"other">>, <<"text">>, <<"other", "text", "other", "text", "other">> }

\* Values of the weakly typed output mapping of a StructuredOutputResponse.
Num(n) == <<"num", n>>
Str(s) == <<"str", s>>
\* The JSON null.
Null == <<"null", 0>>
Outputs ==
    { [currency_from |-> Str("GBP"), currency_to |-> Str("JPY"), amount |-> Num(1)],
      [currency_from |-> Str("GBP"), currency_to |-> Str("JPY"), amount |-> Str("abc")] }

\* Variant of the read that also replaces an amount float() would reject.
Get_masking(output, key, default) ==
    IF key \in DOMAIN output /\ ~(key = "amount" /\ output[key] \in {Str("abc"), Null})
    THEN output[key] ELSE default

\* Variant of the read that falls back to the default unless the mapping is
\* complete.
Get_complete(output, key, default) ==
    IF DOMAIN output = {"currency_from", "currency_to", "amount"} THEN output[key] ELSE default

\* dict.get(key, default)
Get(output, key, default) == IF key \in DOMAIN output THEN output[key] ELSE default

\* The texts float() accepts, with the number each one denotes.
NumericText == [s \in {"5"} |-> 5]

\* float(v): a number converts to itself and a numeric text to its number;
\* any other text raises ValueError and null raises TypeError.
FloatRaises(v) == v[1] = "null" \/ (v[1] = "str" /\ v[2] \notin DOMAIN NumericText)
Float(v) == IF v[1] = "str" THEN Num(NumericText[v[2]]) ELSE v

\* Every output mapping over the three fields the handler reads: each field
\* absent, well-formed or malformed.
Fields == {"currency_from", "currency_to", "amount"}
FieldValues(key) ==
    IF key = "amount" THEN {Num(100), Str("5"), Str("abc"), Null}
    ELSE IF key = "currency_from" THEN {Str("GBP"), Null}
    ELSE {Str("JPY"), Null}
AllOutputs ==
    UNION { {o \in [D -> UNION {FieldValues(k) : k \in Fields}] :
                \A k \in D : o[k] \in FieldValues(k)} : D \in SUBSET Fields }

\* Texts of the replies, by what they say.
RESULT == "result"
UNABLE == "unable"
ERRORTEXT == "error"

\* --------------------------------------------------------------- effects
\* What a handler task has done so far, in order.
Effect(op, to, ref, ok) == [op |-> op, to |-> to, ref |-> ref, ok |-> ok]
SendOps == {"ack", "prompt", "reply", "error", "response"}
ChatOps == {"reply", "error"}

Ops(eff, ops) == SelectSeq(eff, LAMBDA e : e.op \in ops)
Emitted(eff, ops) == SelectSeq(eff, LAMBDA e : e.op \in ops /\ e.ok)
Positions(eff, ops) == {k \in 1..Len(eff) : eff[k].op \in ops}

\* The transport accepted every send of the task so far.
AllAccepted(eff) == \A k \in 1..Len(eff) : eff[k].op \in SendOps => eff[k].ok

VARIABLES
    deployment,   \* which of the three agents this process is
    storage,      \* ctx.storage: session key -> waiting sender, None when absent
    tasks,        \* handler invocations in flight, by slot
    delivered,    \* number of inbound messages delivered so far
    chatted,      \* history: session -> senders whose chat messages were received on it
    hist,         \* history: session -> chat messages with text handled alone to completion
    taken,        \* history: session -> sender found by the last response lookup
    pending       \* session -> sender -> extraction requests for that sender's texts
                  \* the extraction agent has yet to answer; counted where the
                  \* agent is taken to answer each request
VARIABLES
    stream,       \* CurrencyUAgent: what currency_agent.stream yielded in the latest
                  \* call and how many items the handler took; recorded where the
                  \* reply text is compared with the stream
    boot          \* CurrencyUAgent: the progress of start()

vars == <<deployment, storage, tasks, delivered, chatted, hist, taken, pending, stream, boot>>

\* No stream call made yet.
NoStream == [items |-> <<>>, raises |-> FALSE, consumed |-> 0]

\* CurrencyUAgent.__init__, lines 55-71: start() not called yet.
NotStarted ==
    [pc |-> "init", api_token |-> None, is_running |-> FALSE, wait_count |-> 0,
     observed |-> FALSE, returned |-> None, eff |-> <<>>]

Idle ==
    [kind |-> "idle", msg_id |-> 0, sender |-> None, session |-> None,
     content |-> <<>>, output |-> [k \in {} |-> Str("")], pc |-> "idle", i |-> 0,
     session_sender |-> Unset, result |-> "", eff |-> <<>>,
     solo |-> FALSE, seen |-> <<>>, prior |-> None, origin |-> None]

InFlight(t) == tasks[t].kind # "idle"

\* A chat handler on session s is running.
ChatInFlight(s) == \E t \in Slots : tasks[t].kind = "chat" /\ tasks[t].session = s

\* Index of the next TextContent part after position i, or 0.
NextText(content, i) ==
    LET later == {k \in (i + 1)..Len(content) : content[k] = "text"}
    IN  IF later = {} THEN 0 ELSE CHOOSE k \in later : \A j \in later : k <= j

TextCount(content) == Cardinality({k \in 1..Len(content) : content[k] = "text"})

\* Variants of the store write: one that keeps the first writer, one that
\* keeps a single entry for all sessions.
StoreSet_first(st, key, value) == IF st[key] = None THEN [st EXCEPT ![key] = value] ELSE st
StoreSet_global(st, key, value) == [k \in DOMAIN st |-> value]

\* ctx.storage.set(key, value)
StoreSet(st, key, value) == [st EXCEPT ![key] = value]

\* ctx.storage.get(key): the value read
StoreGet(st, key) == st[key]

\* Variant of the lookup that removes the entry it reads.
StoreAfterGet_take(st, key) == [st EXCEPT ![key] = None]

\* ctx.storage.get(key): the store it leaves behind
StoreAfterGet(st, key) == st

\* Outcomes of ctx.send: the acknowledgement send is taken to be accepted by
\* the transport; a later send may also raise.
SendOutcomes(op) == IF op = "ack" THEN {TRUE} ELSE {TRUE, FALSE}

Init ==
    /\ deployment \in Deployments
    /\ storage = [s \in Sessions |-> None]
    /\ tasks = [t \in Slots |-> Idle]
    /\ delivered = 0
    /\ chatted = [s \in Sessions |-> {}]
    /\ hist = [s \in Sessions |-> <<>>]
    /\ taken = [s \in Sessions |-> None]
    /\ pending = [s \in Sessions |-> [x \in Senders |-> 0]]
    /\ stream = NoStream
    /\ boot = NotStarted

\* ------------------------------------------------------------- delivery
\* The dispatcher hands an inbound envelope to its handler in a free slot.
\* The tasks of the direct-mode agents share no state, so their interleavings
\* add no behaviour: there one message is handled at a time.
FreeSlot(t) ==
    /\ ~InFlight(t)
    /\ \A u \in Slots : u < t => InFlight(u)
    /\ deployment # "structured" => t = 1

\* A ChatMessage arrives: handle_message / handle_chat_message is invoked.
DeliverChat(t, sender, session, content) ==
    /\ delivered < MaxMsgs
    /\ FreeSlot(t)
    /\ delivered' = delivered + 1
    /\ tasks' = [u \in Slots |->
          IF u = t
          THEN [Idle EXCEPT !.kind = "chat", !.msg_id = t, !.sender = sender,
                            !.session = session, !.content = content, !.pc = "start",
                            !.solo = ~ChatInFlight(session)]
          ELSE IF tasks[u].kind = "chat" /\ tasks[u].session = session
          THEN [tasks[u] EXCEPT !.solo = FALSE]
          ELSE tasks[u]]
    /\ chatted' = [chatted EXCEPT ![session] = @ \cup {sender}]
    /\ taken' = [taken EXCEPT ![session] = None]
    /\ UNCHANGED <<deployment, pending, stream, boot, storage, hist>>

\* handle_structured_output_response is invoked for a response on a session.
ResponseArrives(t, session, output) ==
    /\ deployment = "structured"
    /\ FreeSlot(t)
    /\ tasks' = [tasks EXCEPT ![t] =
          [Idle EXCEPT !.kind = "resp", !.msg_id = t,
                       !.sender = AI_AGENT_ADDRESS, !.session = session,
                       !.output = output, !.pc = "start"]]
    /\ UNCHANGED <<deployment, storage, chatted, hist, taken>>

\* A StructuredOutputResponse arrives, whether or not a request is
\* outstanding on its session.
DeliverResponse(t, session, output) ==
    /\ delivered < MaxMsgs
    /\ delivered' = delivered + 1
    /\ ResponseArrives(t, session, output)
    /\ UNCHANGED <<pending, stream, boot>>

\* Variant that records the sender of an acknowledgement as waiting.
HandleAck_store(sender, session) ==
    /\ delivered < MaxMsgs
    /\ delivered' = delivered + 1
    /\ storage' = StoreSet(storage, session, sender)
    /\ UNCHANGED <<deployment, pending, stream, boot, tasks, chatted, hist, taken>>

\* A ChatAcknowledgement arrives: handle_ack / handle_chat_ack only logs.
HandleAck(sender, session) ==
    /\ delivered < MaxMsgs
    /\ delivered' = delivered + 1
    /\ UNCHANGED <<deployment, pending, stream, boot, storage, tasks, chatted, hist, taken>>

\* ---------------------------------------- structured agent: handle_message
\* Variant of the first segment: the acknowledgement first, the store write
\* only when a text part follows.
StructChatAck_ackfirst(t) ==
    /\ deployment = "structured"
    /\ tasks[t].kind = "chat" /\ tasks[t].pc = "start"
    /\ storage' = IF NextText(tasks[t].content, 0) = 0 THEN storage
                  ELSE StoreSet(storage, tasks[t].session, tasks[t].sender)
    /\ tasks' = [tasks EXCEPT ![t].eff =
                     <<Effect("ack", tasks[t].sender, tasks[t].msg_id, TRUE)>>
                     \o (IF NextText(tasks[t].content, 0) = 0 THEN <<>>
                         ELSE <<Effect("set", tasks[t].session, tasks[t].sender, TRUE)>>),
                  ![t].pc = IF NextText(tasks[t].content, 0) = 0 THEN "done" ELSE "loop"]
    /\ UNCHANGED <<deployment, pending, stream, boot, delivered, chatted, hist, taken>>

\* Variant of the first segment without the acknowledgement.
StructChatAck_noack(t) ==
    /\ deployment = "structured"
    /\ tasks[t].kind = "chat" /\ tasks[t].pc = "start"
    /\ storage' = StoreSet(storage, tasks[t].session, tasks[t].sender)
    /\ tasks' = [tasks EXCEPT ![t].eff =
                     <<Effect("set", tasks[t].session, tasks[t].sender, TRUE)>>,
                  ![t].pc = IF NextText(tasks[t].content, 0) = 0 THEN "done" ELSE "loop"]
    /\ UNCHANGED <<deployment, pending, stream, boot, delivered, chatted, hist, taken>>

\* Lines 161-165: the store write, then the acknowledgement send.
StructChatAck(t) ==
    /\ deployment = "structured"
    /\ tasks[t].kind = "chat" /\ tasks[t].pc = "start"
    /\ storage' = StoreSet(storage, tasks[t].session, tasks[t].sender)
    /\ \E ok \in SendOutcomes("ack") :
          tasks' = [tasks EXCEPT ![t].eff =
                        <<Effect("set", tasks[t].session, tasks[t].sender, TRUE),
                          Effect("ack", tasks[t].sender, tasks[t].msg_id, ok)>>,
                     ![t].pc = IF NextText(tasks[t].content, 0) = 0 THEN "done" ELSE "loop"]
    /\ UNCHANGED <<deployment, pending, stream, boot, delivered, chatted, hist, taken>>

\* Lines 168-200, one pass of the loop up to the next TextContent part: the
\* store write, then the StructuredOutputPrompt send.  Nothing catches a
\* raising send.
DispatchPart(t) ==
    /\ deployment = "structured"
    /\ tasks[t].kind = "chat" /\ tasks[t].pc = "loop"
    /\ LET k == NextText(tasks[t].content, tasks[t].i)
       IN  /\ k # 0
           /\ storage' = StoreSet(storage, tasks[t].session, tasks[t].sender)
           /\ \E ok \in SendOutcomes("prompt") :
                 tasks' = [tasks EXCEPT
                     ![t].eff = @ \o <<Effect("set", tasks[t].session, tasks[t].sender, TRUE),
                                       Effect("prompt", AI_AGENT_ADDRESS, k, ok)>>,
                     ![t].i = k,
                     ![t].pc = IF ~ok THEN "faulted"
                               ELSE IF NextText(tasks[t].content, k) = 0 THEN "done"
                               ELSE "loop"]
    /\ UNCHANGED <<deployment, delivered, chatted, hist, taken>>

\* The same segment where the requests outstanding are not counted.
StructChatPart(t) == DispatchPart(t) /\ UNCHANGED <<pending, stream, boot>>

\* ------------------- structured agent: handle_structured_output_response
\* What currency_agent.ainvoke gives: a last message with content, a result
\* without usable content, or an exception.
InvokeOutcomes == {RESULT, "", "raise"}

\* Variant whose except clause returns an empty text.
Perform_silent(out) == IF out = "raise" THEN "" ELSE IF out = "" THEN UNABLE ELSE RESULT

\* perform_currency_calculation, lines 70-89: the text it returns for what
\* the collaborator gave; the except clause turns an exception into the
\* error text.
Perform(out) == IF out = "raise" THEN ERRORTEXT ELSE IF out = "" THEN UNABLE ELSE RESULT

\* The texts perform_currency_calculation can return.
PerformOutcomes == {Perform(out) : out \in InvokeOutcomes}

\* Variant with one context for every caller.
ThreadKey_shared(name) == <<"chat", "unknown">>

\* thread_id of the collaborator's conversation context
ThreadKey(name) == <<"chat", name>>

\* Variant of the presence check that always passes.
HasWaiting_always(session_sender) == TRUE

\* `if session_sender:`
HasWaiting(session_sender) == session_sender # None

\* Variant that passes the value read as it is.
OrUnknown_raw(session_sender) == session_sender

\* `session_sender or "unknown"`
OrUnknown(session_sender) == IF session_sender # None THEN session_sender ELSE "unknown"

\* Lines 216-226: the fields with their defaults, the lookup of the waiting
\* sender, the calculation.  A raising float() enters the except block.
RespExtract(t) ==
    /\ deployment = "structured"
    /\ tasks[t].kind = "resp" /\ tasks[t].pc = "start"
    /\ LET r == tasks[t]
           currency_from == Get(r.output, "currency_from", Str("USD"))
           currency_to == Get(r.output, "currency_to", Str("EUR"))
           raw == Get(r.output, "amount", Num(1))
           found == StoreGet(storage, r.session)
           quiet == ~ChatInFlight(r.session)
       IN  IF FloatRaises(raw)
           THEN /\ tasks' = [tasks EXCEPT ![t].pc = "except"]
                /\ UNCHANGED <<storage, taken>>
           ELSE /\ \E out \in InvokeOutcomes :
                      tasks' = [tasks EXCEPT
                          ![t].session_sender = found,
                          ![t].result = Perform(out),
                          ![t].eff = <<Effect("calc", ThreadKey(OrUnknown(found)),
                                              <<currency_from, currency_to, Float(raw)>>,
                                              out # "raise")>>,
                          ![t].seen = IF quiet THEN hist[r.session] ELSE <<>>,
                          ![t].prior = taken[r.session],
                          ![t].pc = IF HasWaiting(found) THEN "reply" ELSE "done"]
                /\ taken' = [taken EXCEPT ![r.session] = IF quiet THEN found ELSE None]
                /\ storage' = StoreAfterGet(storage, r.session)
    /\ UNCHANGED <<deployment, pending, stream, boot, delivered, chatted, hist>>

\* Variant of the reply that answers the sender of the response.
RespReply_tosender(t) ==
    /\ deployment = "structured"
    /\ tasks[t].kind = "resp" /\ tasks[t].pc = "reply"
    /\ \E ok \in SendOutcomes("reply") :
          tasks' = [tasks EXCEPT
              ![t].eff = @ \o <<Effect("reply", tasks[t].sender, tasks[t].result, ok)>>,
              ![t].pc = IF ok THEN "done" ELSE "except"]
    /\ UNCHANGED <<deployment, pending, stream, boot, storage, delivered, chatted, hist, taken>>

\* Variant that answers the sender whose text the response was extracted
\* from, as a request identifier carried through the round trip would allow.
RespReply_toorigin(t) ==
    /\ deployment = "structured"
    /\ tasks[t].kind = "resp" /\ tasks[t].pc = "reply"
    /\ \E ok \in SendOutcomes("reply") :
          tasks' = [tasks EXCEPT
              ![t].eff = @ \o <<Effect("reply", tasks[t].origin, tasks[t].result, ok)>>,
              ![t].pc = IF ok THEN "done" ELSE "except"]
    /\ UNCHANGED <<deployment, pending, stream, boot, storage, delivered, chatted, hist, taken>>

\* Variant that reads the entry of the session again when it sends.
RespReply_reread(t) ==
    /\ deployment = "structured"
    /\ tasks[t].kind = "resp" /\ tasks[t].pc = "reply"
    /\ \E ok \in SendOutcomes("reply") :
          tasks' = [tasks EXCEPT
              ![t].eff = @ \o <<Effect("reply", StoreGet(storage, tasks[t].session),
                                        tasks[t].result, ok)>>,
              ![t].pc = IF ok THEN "done" ELSE "except"]
    /\ UNCHANGED <<deployment, pending, stream, boot, storage, delivered, chatted, hist, taken>>

\* Lines 227-231: the result goes to the sender that was read.
RespReply(t) ==
    /\ deployment = "structured"
    /\ tasks[t].kind = "resp" /\ tasks[t].pc = "reply"
    /\ \E ok \in SendOutcomes("reply") :
          tasks' = [tasks EXCEPT
              ![t].eff = @ \o <<Effect("reply", tasks[t].session_sender, tasks[t].result, ok)>>,
              ![t].pc = IF ok THEN "done" ELSE "except"]
    /\ UNCHANGED <<deployment, pending, stream, boot, storage, delivered, chatted, hist, taken>>

\* Lines 235-242: the except block reads the store again and tells the
\* sender it finds.
RespError(t) ==
    /\ deployment = "structured"
    /\ tasks[t].kind = "resp" /\ tasks[t].pc = "except"
    /\ LET r == tasks[t]
           found == StoreGet(storage, r.session)
           first == r.session_sender = Unset
           quiet == ~ChatInFlight(r.session)
       IN  /\ IF HasWaiting(found)
              THEN \E ok \in SendOutcomes("error") :
                      tasks' = [tasks EXCEPT
                          ![t].session_sender = found,
                          ![t].eff = @ \o <<Effect("error", found, ERRORTEXT, ok)>>,
                          ![t].seen = IF first /\ quiet THEN hist[r.session] ELSE @,
                          ![t].prior = IF first THEN taken[r.session] ELSE @,
                          ![t].pc = IF ok THEN "done" ELSE "faulted"]
              ELSE tasks' = [tasks EXCEPT
                          ![t].session_sender = found,
                          ![t].seen = IF first /\ quiet THEN hist[r.session] ELSE @,
                          ![t].prior = IF first THEN taken[r.session] ELSE @,
                          ![t].pc = "done"]
           /\ taken' = IF first
                       THEN [taken EXCEPT ![r.session] = IF quiet THEN found ELSE None]
                       ELSE taken
           /\ storage' = StoreAfterGet(storage, r.session)
    /\ UNCHANGED <<deployment, pending, stream, boot, delivered, chatted, hist>>

\* ------------------------------------------- simple agent: handle_message
\* Variant that acknowledges only a message with a text part.
SimpleChatAck_iftext(t) ==
    /\ deployment = "simple"
    /\ tasks[t].kind = "chat" /\ tasks[t].pc = "start"
    /\ tasks' = [tasks EXCEPT
          ![t].eff = IF NextText(tasks[t].content, 0) = 0 THEN <<>>
                     ELSE <<Effect("ack", tasks[t].sender, tasks[t].msg_id, TRUE)>>,
          ![t].pc = IF NextText(tasks[t].content, 0) = 0 THEN "done" ELSE "loop"]
    /\ UNCHANGED <<deployment, pending, stream, boot, storage, delivered, chatted, hist, taken>>

\* Variant that records the sender in the store before it acknowledges.
SimpleChatAck_store(t) ==
    /\ deployment = "simple"
    /\ tasks[t].kind = "chat" /\ tasks[t].pc = "start"
    /\ storage' = StoreSet(storage, tasks[t].session, tasks[t].sender)
    /\ tasks' = [tasks EXCEPT
          ![t].eff = <<Effect("ack", tasks[t].sender, tasks[t].msg_id, TRUE)>>,
          ![t].pc = IF NextText(tasks[t].content, 0) = 0 THEN "done" ELSE "loop"]
    /\ UNCHANGED <<deployment, pending, stream, boot, delivered, chatted, hist, taken>>

\* Lines 104-107: the acknowledgement send.
SimpleChatAck(t) ==
    /\ deployment = "simple"
    /\ tasks[t].kind = "chat" /\ tasks[t].pc = "start"
    /\ \E ok \in SendOutcomes("ack") :
          tasks' = [tasks EXCEPT
              ![t].eff = <<Effect("ack", tasks[t].sender, tasks[t].msg_id, ok)>>,
              ![t].pc = IF NextText(tasks[t].content, 0) = 0 THEN "done" ELSE "loop"]
    /\ UNCHANGED <<deployment, pending, stream, boot, storage, delivered, chatted, hist, taken>>

\* Lines 123-127: the fallback text unless the last message has content.
ResponseText(content) == IF content # "" THEN RESULT ELSE UNABLE

\* Lines 110-127, up to the next TextContent part: the collaborator call,
\* keyed by the sender.
SimpleChatInvoke(t) ==
    /\ deployment = "simple"
    /\ tasks[t].kind = "chat" /\ tasks[t].pc = "loop"
    /\ LET k == NextText(tasks[t].content, tasks[t].i)
       IN  /\ k # 0
           /\ \E out \in InvokeOutcomes :
                 tasks' = [tasks EXCEPT
                     ![t].eff = @ \o <<Effect("calc", ThreadKey(tasks[t].sender), k,
                                              out # "raise")>>,
                     ![t].i = k,
                     ![t].result = IF out = "raise" THEN "" ELSE ResponseText(out),
                     ![t].pc = IF out = "raise" THEN "except" ELSE "reply"]
    /\ UNCHANGED <<deployment, pending, stream, boot, storage, delivered, chatted, hist, taken>>

\* Lines 130-132: the response send; a raise enters the except block.
SimpleChatReply(t) ==
    /\ deployment = "simple"
    /\ tasks[t].kind = "chat" /\ tasks[t].pc = "reply"
    /\ \E ok \in SendOutcomes("reply") :
          tasks' = [tasks EXCEPT
              ![t].eff = @ \o <<Effect("reply", tasks[t].sender, tasks[t].result, ok)>>,
              ![t].pc = IF ~ok THEN "except"
                        ELSE IF NextText(tasks[t].content, tasks[t].i) = 0 THEN "done"
                        ELSE "loop"]
    /\ UNCHANGED <<deployment, pending, stream, boot, storage, delivered, chatted, hist, taken>>

\* Lines 134-137: the except block inside the loop sends the error text and
\* the loop goes on; nothing catches a raise of this send.
SimpleChatError(t) ==
    /\ deployment = "simple"
    /\ tasks[t].kind = "chat" /\ tasks[t].pc = "except"
    /\ \E ok \in SendOutcomes("error") :
          tasks' = [tasks EXCEPT
              ![t].eff = @ \o <<Effect("error", tasks[t].sender, ERRORTEXT, ok)>>,
              ![t].pc = IF ~ok THEN "faulted"
                        ELSE IF NextText(tasks[t].content, tasks[t].i) = 0 THEN "done"
                        ELSE "loop"]
    /\ UNCHANGED <<deployment, pending, stream, boot, storage, delivered, chatted, hist, taken>>

\* ------------------------------------ CurrencyUAgent: handle_chat_message
\* Items the collaborator's stream yields.
StreamItems ==
    [is_task_complete : BOOLEAN, require_user_input : BOOLEAN, content : {"", RESULT}]
Streams == SeqsUpTo(StreamItems, MaxItems)

\* Variant of the loop that stops only at an item that completes the task.
StreamContent_complete(items) ==
    IF \E k \in 1..Len(items) : items[k].is_task_complete
    THEN items[CHOOSE k \in 1..Len(items) :
                   /\ items[k].is_task_complete
                   /\ \A j \in 1..(k - 1) : ~items[j].is_task_complete].content
    ELSE ""

\* Lines 136-143: the content of the first item that completes the task or
\* asks for input; "" when the stream ends without one.
RECURSIVE StreamContent(_)
StreamContent(items) ==
    IF items = <<>> THEN ""
    ELSE IF Head(items).is_task_complete THEN Head(items).content
    ELSE IF Head(items).require_user_input THEN Head(items).content
    ELSE StreamContent(Tail(items))

\* Lines 145-146
OrFallback(response_content) == IF response_content = "" THEN UNABLE ELSE response_content

\* Lines 125-128: the acknowledgement send.
UChatAck(t) ==
    /\ deployment = "uagent"
    /\ tasks[t].kind = "chat" /\ tasks[t].pc = "start"
    /\ \E ok \in SendOutcomes("ack") :
          tasks' = [tasks EXCEPT
              ![t].eff = <<Effect("ack", tasks[t].sender, tasks[t].msg_id, ok)>>,
              ![t].pc = IF NextText(tasks[t].content, 0) = 0 THEN "done" ELSE "loop"]
    /\ UNCHANGED <<deployment, pending, stream, boot, storage, delivered, chatted, hist, taken>>

\* The stream yields an item that ends the loop.
Stops(items) ==
    \E k \in 1..Len(items) : items[k].is_task_complete \/ items[k].require_user_input

\* Items the `async for` takes from the stream: up to and with the first one
\* that makes it break.
RECURSIVE Consumed(_)
Consumed(items) ==
    IF items = <<>> THEN 0
    ELSE IF Head(items).is_task_complete \/ Head(items).require_user_input THEN 1
    ELSE 1 + Consumed(Tail(items))

\* The record of a stream call: the items the collaborator had to yield,
\* whether it raises after them, and how many items the handler took.
StreamCall(items, raises) ==
    [items |-> items, raises |-> raises, consumed |-> Consumed(items)]

\* Lines 131-146, up to the next TextContent part: the collaborator's
\* stream, keyed by the session.  The stream yields its items and then ends
\* or raises; the handler leaves it at the first item that stops the loop.
UChatConsume(t, items, raises) ==
    /\ deployment = "uagent"
    /\ tasks[t].kind = "chat" /\ tasks[t].pc = "loop"
    /\ LET k == NextText(tasks[t].content, tasks[t].i)
       IN  /\ k # 0
           /\ tasks' =
                 IF Stops(items) \/ ~raises
                 THEN [tasks EXCEPT
                        ![t].eff = @ \o <<Effect("calc", <<"session", tasks[t].session>>, k, TRUE)>>,
                        ![t].i = k,
                        ![t].result = OrFallback(StreamContent(items)),
                        ![t].pc = "reply"]
                 ELSE [tasks EXCEPT
                        ![t].eff = @ \o <<Effect("calc", <<"session", tasks[t].session>>, k, FALSE)>>,
                        ![t].i = k,
                        ![t].pc = "except"]
    /\ UNCHANGED <<deployment, pending, boot, storage, delivered, chatted, hist, taken>>

UChatStream(t) ==
    /\ \E items \in Streams, raises \in BOOLEAN : UChatConsume(t, items, raises)
    /\ UNCHANGED stream

\* Lines 149-154: the chat response send.
UChatReply(t) ==
    /\ deployment = "uagent"
    /\ tasks[t].kind = "chat" /\ tasks[t].pc = "reply"
    /\ \E ok \in SendOutcomes("reply") :
          tasks' = [tasks EXCEPT
              ![t].eff = @ \o <<Effect("reply", tasks[t].sender, tasks[t].result, ok)>>,
              ![t].pc = IF ~ok THEN "except"
                        ELSE IF NextText(tasks[t].content, tasks[t].i) = 0 THEN "done"
                        ELSE "loop"]
    /\ UNCHANGED <<deployment, pending, stream, boot, storage, delivered, chatted, hist, taken>>

\* Lines 156-163: the except block around the whole handler sends the error
\* text and the handler ends.
UChatError(t) ==
    /\ deployment = "uagent"
    /\ tasks[t].kind = "chat" /\ tasks[t].pc = "except"
    /\ \E ok \in SendOutcomes("error") :
          tasks' = [tasks EXCEPT
              ![t].eff = @ \o <<Effect("error", tasks[t].sender, ERRORTEXT, ok)>>,
              ![t].pc = IF ok THEN "done" ELSE "faulted"]
    /\ UNCHANGED <<deployment, pending, stream, boot, storage, delivered, chatted, hist, taken>>

\* ------------------------------------------- CurrencyUAgent: handle_query
\* A QueryMessage arrives: handle_query is invoked.
DeliverQuery(t, sender, session) ==
    /\ deployment = "uagent"
    /\ delivered < MaxMsgs
    /\ FreeSlot(t)
    /\ delivered' = delivered + 1
    /\ tasks' = [tasks EXCEPT ![t] =
          [Idle EXCEPT !.kind = "query", !.msg_id = t, !.sender = sender,
                       !.session = session, !.pc = "start"]]
    /\ UNCHANGED <<deployment, pending, stream, boot, storage, chatted, hist, taken>>

\* Lines 96-107: the collaborator's stream, keyed by the session, and the
\* fallback text.
QueryConsume(t, items, raises) ==
    /\ deployment = "uagent"
    /\ tasks[t].kind = "query" /\ tasks[t].pc = "start"
    /\ tasks' =
          IF Stops(items) \/ ~raises
          THEN [tasks EXCEPT
                 ![t].eff = <<Effect("calc", <<"session", tasks[t].session>>, 0, TRUE)>>,
                 ![t].result = OrFallback(StreamContent(items)),
                 ![t].pc = "reply"]
          ELSE [tasks EXCEPT
                 ![t].eff = <<Effect("calc", <<"session", tasks[t].session>>, 0, FALSE)>>,
                 ![t].pc = "except"]
    /\ UNCHANGED <<deployment, pending, boot, storage, delivered, chatted, hist, taken>>

\* Variant of the except block that only logs.
QueryError_logonly(t) ==
    /\ deployment = "uagent"
    /\ tasks[t].kind = "query" /\ tasks[t].pc = "except"
    /\ tasks' = [tasks EXCEPT ![t].pc = "done"]
    /\ UNCHANGED <<deployment, pending, stream, boot, storage, delivered, chatted, hist, taken>>

\* Line 110: the ResponseMessage send; a raise enters the except block.
QueryRespond(t) ==
    /\ deployment = "uagent"
    /\ tasks[t].kind = "query" /\ tasks[t].pc = "reply"
    /\ \E ok \in SendOutcomes("response") :
          tasks' = [tasks EXCEPT
              ![t].eff = @ \o <<Effect("response", tasks[t].sender, tasks[t].result, ok)>>,
              ![t].pc = IF ok THEN "done" ELSE "except"]
    /\ UNCHANGED <<deployment, pending, stream, boot, storage, delivered, chatted, hist, taken>>

\* Lines 113-116: the except block sends the error text as a ResponseMessage.
QueryError(t) ==
    /\ deployment = "uagent"
    /\ tasks[t].kind = "query" /\ tasks[t].pc = "except"
    /\ \E ok \in SendOutcomes("response") :
          tasks' = [tasks EXCEPT
              ![t].eff = @ \o <<Effect("response", tasks[t].sender, ERRORTEXT, ok)>>,
              ![t].pc = IF ok THEN "done" ELSE "faulted"]
    /\ UNCHANGED <<deployment, pending, stream, boot, storage, delivered, chatted, hist, taken>>

\* ------------------------------------ CurrencyUAgent: handle_http_request
\* A POST /currency arrives: handle_http_request is invoked.
DeliverHttp(t) ==
    /\ deployment = "uagent"
    /\ delivered < MaxMsgs
    /\ FreeSlot(t)
    /\ delivered' = delivered + 1
    /\ tasks' = [tasks EXCEPT ![t] = [Idle EXCEPT !.kind = "http", !.msg_id = t, !.pc = "start"]]
    /\ UNCHANGED <<deployment, pending, stream, boot, storage, chatted, hist, taken>>

\* Variant without the except block: the collaborator's exception leaves the
\* handler.
HttpConsume_raising(t, items, raises) ==
    /\ deployment = "uagent"
    /\ tasks[t].kind = "http" /\ tasks[t].pc = "start"
    /\ tasks' =
          IF Stops(items) \/ ~raises
          THEN [tasks EXCEPT
                 ![t].eff = <<Effect("calc", <<"session", "http_session">>, 0, TRUE),
                              Effect("return", "http", OrFallback(StreamContent(items)), TRUE)>>,
                 ![t].result = OrFallback(StreamContent(items)),
                 ![t].pc = "done"]
          ELSE [tasks EXCEPT
                 ![t].eff = <<Effect("calc", <<"session", "http_session">>, 0, FALSE)>>,
                 ![t].pc = "faulted"]
    /\ UNCHANGED <<deployment, pending, boot, storage, delivered, chatted, hist, taken>>

\* Lines 178-207: the collaborator's stream under the fixed key
\* "http_session", then the CurrencyResponse returned: the content or the
\* fallback text, or the error text from the except block.
HttpConsume(t, items, raises) ==
    /\ deployment = "uagent"
    /\ tasks[t].kind = "http" /\ tasks[t].pc = "start"
    /\ LET ok == Stops(items) \/ ~raises
           response == IF ok THEN OrFallback(StreamContent(items)) ELSE ERRORTEXT
       IN  tasks' = [tasks EXCEPT
               ![t].eff = <<Effect("calc", <<"session", "http_session">>, 0, ok),
                            Effect("return", "http", response, TRUE)>>,
               ![t].result = response,
               ![t].pc = "done"]
    /\ UNCHANGED <<deployment, pending, boot, storage, delivered, chatted, hist, taken>>

\* ---------------------------------------------------------------- return
Last2(q) == IF Len(q) <= 2 THEN q ELSE SubSeq(q, Len(q) - 1, Len(q))

\* Variant in which the end of a chat handler drops the entry of its session.
Return_expire(t) ==
    /\ tasks[t].pc \in {"done", "faulted"}
    /\ tasks' = [tasks EXCEPT ![t] = Idle]
    /\ storage' = IF tasks[t].kind = "chat"
                  THEN [storage EXCEPT ![tasks[t].session] = None] ELSE storage
    /\ UNCHANGED <<deployment, pending, stream, boot, delivered, chatted, hist, taken>>

\* The handler coroutine ends (normally, or with the exception it let out)
\* and its slot is free again; the stream it iterated goes with it.
Return(t) ==
    /\ tasks[t].pc \in {"done", "faulted"}
    /\ tasks' = [tasks EXCEPT ![t] = Idle]
    /\ hist' =
          IF deployment # "structured" THEN hist
          ELSE IF tasks[t].kind = "chat" /\ tasks[t].solo /\ tasks[t].pc = "done"
                  /\ TextCount(tasks[t].content) > 0
          THEN [hist EXCEPT ![tasks[t].session] =
                   Last2(Append(@, [sender |-> tasks[t].sender,
                                    texts |-> TextCount(tasks[t].content)]))]
          ELSE [hist EXCEPT ![tasks[t].session] = <<>>]
    /\ stream' = NoStream
    /\ UNCHANGED <<deployment, pending, boot, storage, delivered, chatted, taken>>

Next ==
    \/ \E t \in Slots, sender \in Senders, session \in Sessions, content \in Contents :
          DeliverChat(t, sender, session, content)
    \/ \E t \in Slots, session \in Sessions, output \in Outputs :
          DeliverResponse(t, session, output)
    \/ \E sender \in Senders, session \in Sessions : HandleAck(sender, session)
    \/ \E t \in Slots :
          \/ StructChatAck(t)
          \/ StructChatPart(t)
          \/ RespExtract(t)
          \/ RespReply(t)
          \/ RespError(t)
          \/ SimpleChatAck(t)
          \/ SimpleChatInvoke(t)
          \/ SimpleChatReply(t)
          \/ SimpleChatError(t)
          \/ UChatAck(t)
          \/ UChatStream(t)
          \/ UChatReply(t)
          \/ UChatError(t)
          \/ Return(t)

Spec == Init /\ [][Next]_vars

\* ------------------------------------------ the response handler by itself
\* The delegated agent at rest, a chat message without text parts of a
\* sender already handled on s1 or nothing received yet; then responses with
\* any output mapping arrive and are handled one at a time.
InitExtract ==
    /\ deployment = "structured"
    /\ \E w \in Senders \cup {None} :
          /\ storage = [s \in Sessions |-> IF s = "s1" THEN w ELSE None]
          /\ chatted = [s \in Sessions |-> IF s = "s1" /\ w # None THEN {w} ELSE {}]
          /\ delivered = IF w = None THEN 0 ELSE 1
    /\ tasks = [t \in Slots |-> Idle]
    /\ hist = [s \in Sessions |-> <<>>]
    /\ taken = [s \in Sessions |-> None]
    /\ pending = [s \in Sessions |-> [x \in Senders |-> 0]]
    /\ stream = NoStream
    /\ boot = NotStarted

NextExtract ==
    \/ \E session \in Sessions, output \in AllOutputs : DeliverResponse(1, session, output)
    \/ RespExtract(1)
    \/ RespReply(1)
    \/ RespError(1)
    \/ Return(1)

SpecExtract == InitExtract /\ [][NextExtract]_vars

\* ------------------------------------- CurrencyUAgent, all its entry points
\* CurrencyUAgent with its three entry points (chat message, QueryMessage,
\* POST /currency), one request at a time, each stream call recorded.
InitUAgent == Init /\ deployment = "uagent"

UChatSeen(t) ==
    \E items \in Streams, raises \in BOOLEAN :
        UChatConsume(t, items, raises) /\ stream' = StreamCall(items, raises)

QuerySeen(t) ==
    \E items \in Streams, raises \in BOOLEAN :
        QueryConsume(t, items, raises) /\ stream' = StreamCall(items, raises)

HttpSeen(t) ==
    \E items \in Streams, raises \in BOOLEAN :
        HttpConsume(t, items, raises) /\ stream' = StreamCall(items, raises)

NextUAgent ==
    \/ \E t \in Slots, sender \in Senders, session \in Sessions, content \in Contents :
          delivered < MaxRequests /\ DeliverChat(t, sender, session, content)
    \/ \E t \in Slots, sender \in Senders, session \in Sessions :
          delivered < MaxRequests /\ DeliverQuery(t, sender, session)
    \/ \E t \in Slots : delivered < MaxRequests /\ DeliverHttp(t)
    \/ \E t \in Slots :
          \/ UChatAck(t)
          \/ UChatSeen(t)
          \/ UChatReply(t)
          \/ UChatError(t)
          \/ QuerySeen(t)
          \/ QueryRespond(t)
          \/ QueryError(t)
          \/ HttpSeen(t)
          \/ Return(t)

SpecUAgent == InitUAgent /\ [][NextUAgent]_vars

\* ------------------------------- two chat messages on one session, in order
\* The delegated agent after it received a chat message with a text part,
\* ran its handler up to the acknowledgement send, and then received a second
\* chat message on the same session; from there the two handlers interleave.
InitRace ==
    /\ deployment = "structured"
    /\ delivered = 2
    /\ \E session \in Sessions, first \in Senders, second \in Senders,
          content1 \in {c \in Contents : TextCount(c) > 0}, content2 \in Contents :
          /\ storage = StoreSet([s \in Sessions |-> None], session, first)
          /\ tasks = [t \in Slots |->
                IF t = 1
                THEN [Idle EXCEPT !.kind = "chat", !.msg_id = 1, !.sender = first,
                                  !.session = session, !.content = content1, !.pc = "loop",
                                  !.eff = <<Effect("set", session, first, TRUE),
                                            Effect("ack", first, 1, TRUE)>>]
                ELSE [Idle EXCEPT !.kind = "chat", !.msg_id = 2, !.sender = second,
                                  !.session = session, !.content = content2, !.pc = "start"]]
          /\ chatted = [s \in Sessions |-> IF s = session THEN {first, second} ELSE {}]
    /\ hist = [s \in Sessions |-> <<>>]
    /\ taken = [s \in Sessions |-> None]
    /\ pending = [s \in Sessions |-> [x \in Senders |-> 0]]
    /\ stream = NoStream
    /\ boot = NotStarted

NextRace ==
    \E t \in Slots :
        \/ StructChatAck(t)
        \/ StructChatPart(t)
        \/ Return(t)

SpecRace == InitRace /\ [][NextRace]_vars

\* --------------------------- the delegated agent with its extraction agent
\* The delegated agent together with an extraction agent that answers each
\* request it is sent, on the session of the request, and a transport that
\* accepts every send.  At most MaxChats chat messages arrive.
InitLive == Init /\ deployment = "structured"

LiveChat(t, sender, session, content) ==
    /\ delivered < MaxChats
    /\ DeliverChat(t, sender, session, content)

\* The prompt is sent and is now outstanding at the extraction agent.
LiveChatPart(t) ==
    /\ DispatchPart(t)
    /\ AllAccepted(tasks'[t].eff)
    /\ pending' = [pending EXCEPT ![tasks[t].session][tasks[t].sender] = @ + 1]
    /\ UNCHANGED <<stream, boot>>

\* The extraction agent answers one outstanding request of the session; the
\* response carries the session and nothing else of the request.  The task
\* remembers whose text the answer was extracted from.
LiveAnswer(t, session, output) ==
    /\ deployment = "structured"
    /\ FreeSlot(t)
    /\ \E x \in Senders :
          /\ pending[session][x] > 0
          /\ tasks' = [tasks EXCEPT ![t] =
                [Idle EXCEPT !.kind = "resp", !.msg_id = t,
                             !.sender = AI_AGENT_ADDRESS, !.session = session,
                             !.output = output, !.pc = "start", !.origin = x]]
          /\ pending' = [pending EXCEPT ![session][x] = @ - 1]
    /\ UNCHANGED <<deployment, stream, boot, storage, delivered, chatted, hist, taken>>

LiveReply(t) == RespReply(t) /\ AllAccepted(tasks'[t].eff)

LiveError(t) == RespError(t) /\ AllAccepted(tasks'[t].eff)

\* One step of the handler task in slot t.
LiveStep(t) ==
    \/ StructChatAck(t)
    \/ LiveChatPart(t)
    \/ RespExtract(t)
    \/ LiveReply(t)
    \/ LiveError(t)
    \/ Return(t)

AnswerStep(session) == \E t \in Slots, output \in Outputs : LiveAnswer(t, session, output)

NextLive ==
    \/ \E t \in Slots, sender \in Senders, session \in Sessions, content \in Contents :
          LiveChat(t, sender, session, content)
    \/ \E t \in Slots, session \in Sessions, output \in Outputs :
          LiveAnswer(t, session, output)
    \/ \E t \in Slots :
          \/ StructChatAck(t)
          \/ LiveChatPart(t)
          \/ RespExtract(t)
          \/ LiveReply(t)
          \/ LiveError(t)
          \/ Return(t)

\* Every handler task in flight is eventually resumed and every outstanding
\* request is eventually answered.
SpecLive ==
    /\ InitLive /\ [][NextLive]_vars
    /\ \A t \in Slots : WF_vars(LiveStep(t))
    /\ \A session \in Sessions : WF_vars(AnswerStep(session))

\* ------------------------------------------------- CurrencyUAgent.start
\* Line 218
max_wait == 30

\* Values of the api_token argument: absent, empty, a token.
Tokens == {None, "", "tok"}
\* `if self.api_token:`
Truthy(token) == token \notin {None, ""}

\* Outcomes of a requests call: the status of the response, or 0 for a raise.
Statuses == {200, 500}
RequestOutcomes == Statuses \cup {0}

Requests(eff, op) == SelectSeq(eff, LAMBDA e : e.op = op)

\* Lines 209-219: start() is called on an agent built with some api_token;
\* the agent thread is started and wait_count is 0.
StartCall ==
    /\ boot.pc = "init"
    /\ \E token \in Tokens :
          boot' = [boot EXCEPT !.api_token = token, !.pc = "poll"]
    /\ UNCHANGED <<deployment, storage, tasks, delivered, chatted, hist, taken, pending, stream>>

\* Lines 83-88: the startup event of the agent thread sets is_running.
Startup ==
    /\ boot.pc # "init"
    /\ ~boot.is_running
    /\ boot' = [boot EXCEPT !.is_running = TRUE]
    /\ UNCHANGED <<deployment, storage, tasks, delivered, chatted, hist, taken, pending, stream>>

\* Lines 220-222: the loop test passes; one sleep, one more poll counted.
StartPoll ==
    /\ boot.pc = "poll"
    /\ ~boot.is_running /\ boot.wait_count < max_wait
    /\ boot' = [boot EXCEPT !.wait_count = @ + 1]
    /\ UNCHANGED <<deployment, storage, tasks, delivered, chatted, hist, taken, pending, stream>>

\* Line 220: the loop test fails and the loop is left.
StartLeave ==
    /\ boot.pc = "poll"
    /\ boot.is_running \/ boot.wait_count >= max_wait
    /\ boot' = [boot EXCEPT !.pc = "check"]
    /\ UNCHANGED <<deployment, storage, tasks, delivered, chatted, hist, taken, pending, stream>>

\* Lines 224-235: is_running is read once more; when it is unset start()
\* returns False, when it is set start() registers if a token is configured
\* and returns True.
StartCheck ==
    /\ boot.pc = "check"
    /\ boot' = [boot EXCEPT
          !.observed = boot.is_running,
          !.pc = IF boot.is_running /\ Truthy(boot.api_token) THEN "connect" ELSE "done",
          !.returned = IF ~boot.is_running THEN "False"
                       ELSE IF Truthy(boot.api_token) THEN None ELSE "True"]
    /\ UNCHANGED <<deployment, storage, tasks, delivered, chatted, hist, taken, pending, stream>>

\* Variant of the connect step that goes on to the update whatever the
\* connect request gave.
RegisterConnect_anyway ==
    /\ boot.pc = "connect"
    /\ \E outcome \in RequestOutcomes :
          boot' = [boot EXCEPT
              !.eff = @ \o <<Effect("connect", "agent", outcome, outcome # 0)>>,
              !.pc = "update"]
    /\ UNCHANGED <<deployment, storage, tasks, delivered, chatted, hist, taken, pending, stream>>

\* Lines 257-267: the connect request; any status but 200, and a raise, end
\* the registration, and start() returns True.
RegisterConnect ==
    /\ boot.pc = "connect"
    /\ \E outcome \in RequestOutcomes :
          boot' = [boot EXCEPT
              !.eff = @ \o <<Effect("connect", "agent", outcome, outcome # 0)>>,
              !.pc = IF outcome = 200 THEN "update" ELSE "done",
              !.returned = IF outcome = 200 THEN None ELSE "True"]
    /\ UNCHANGED <<deployment, storage, tasks, delivered, chatted, hist, taken, pending, stream>>

\* Lines 311-320: the agent-info update request; whatever it gives, the
\* registration ends and start() returns True.
RegisterUpdate ==
    /\ boot.pc = "update"
    /\ \E outcome \in RequestOutcomes :
          boot' = [boot EXCEPT
              !.eff = @ \o <<Effect("update", "agentverse", outcome, outcome # 0)>>,
              !.pc = "done",
              !.returned = "True"]
    /\ UNCHANGED <<deployment, storage, tasks, delivered, chatted, hist, taken, pending, stream>>

InitStart == Init /\ deployment = "uagent"

NextStart ==
    \/ StartCall
    \/ Startup
    \/ StartPoll
    \/ StartLeave
    \/ StartCheck
    \/ RegisterConnect
    \/ RegisterUpdate

SpecStart == InitStart /\ [][NextStart]_vars

\* ================================================================ claims
ChatTasks == {t \in Slots : tasks[t].kind = "chat"}
RespTasks == {t \in Slots : tasks[t].kind = "resp"}

\* The acknowledgements a chat task has emitted for its message to its sender.
OwnAcks(r) ==
    SelectSeq(r.eff, LAMBDA e : e.op = "ack" /\ e.ok /\ e.to = r.sender /\ e.ref = r.msg_id)

\* C1: in each of the three chat handlers, once the handler's first segment
\* has run there is exactly one acknowledgement, for the message's msg_id and
\* to its sender, whatever the parts and whatever fails afterwards.
AckTotality ==
    \A t \in ChatTasks :
        /\ Len(Ops(tasks[t].eff, {"ack"})) <= 1
        /\ tasks[t].pc # "start" =>
              Len(OwnAcks(tasks[t])) = 1 /\ Len(Ops(tasks[t].eff, {"ack"})) = 1

\* A chat handler let an exception out after a downstream failure and has
\* acknowledged once.
AckTotalityWitness ==
    \E t \in ChatTasks :
        /\ tasks[t].pc = "faulted"
        /\ Len(OwnAcks(tasks[t])) = 1
        /\ \E k \in 1..Len(tasks[t].eff) : ~tasks[t].eff[k].ok

\* The amount of a response, with its default.
RawAmount(r) == Get(r.output, "amount", Num(1))

FullOutput ==
    [currency_from |-> Str("GBP"), currency_to |-> Str("JPY"), amount |-> Num(1)]

\* The waiting sender the first lookup of a response task found.
FirstFound(r) ==
    IF r.eff # <<>> /\ r.eff[1].op = "calc"
    THEN (IF r.eff[1].to[2] = "unknown" THEN None ELSE r.eff[1].to[2])
    ELSE r.session_sender

\* The response was looked up right after one chat message with one text
\* part from X was handled alone on its session.
AfterOneText(r) ==
    /\ r.output = FullOutput
    /\ r.seen # <<>>
    /\ r.seen[Len(r.seen)].texts = 1

WaitingX(r) == r.seen[Len(r.seen)].sender

\* C2 as stated: the round trip sends exactly one reply, to X, and then the
\* store holds no entry for the session.
RoundTripClearsEntry ==
    \A t \in RespTasks :
        (tasks[t].pc = "done" /\ AfterOneText(tasks[t])) =>
            /\ Len(Emitted(tasks[t].eff, ChatOps)) = 1
            /\ \A k \in Positions(tasks[t].eff, ChatOps) : tasks[t].eff[k].to = WaitingX(tasks[t])
            /\ storage[tasks[t].session] = None

\* C2 amended: exactly one result reply is sent and it is addressed to X;
\* when the transport accepts it nothing else is sent, and never more than
\* one chat message is emitted; the store still holds X for the session as
\* long as no new chat message has arrived on it.
RoundTripKeepsEntry ==
    \A t \in RespTasks :
        (tasks[t].pc = "done" /\ AfterOneText(tasks[t])) =>
            /\ FirstFound(tasks[t]) = WaitingX(tasks[t])
            /\ Len(Emitted(tasks[t].eff, ChatOps)) <= 1
            /\ Len(Ops(tasks[t].eff, {"reply"})) = 1
            /\ tasks[t].eff[2].op = "reply"
            /\ tasks[t].eff[2].to = WaitingX(tasks[t])
            /\ tasks[t].eff[2].ok => Len(tasks[t].eff) = 2
            /\ taken[tasks[t].session] = WaitingX(tasks[t]) =>
                  storage[tasks[t].session] = WaitingX(tasks[t])

RoundTripWitness ==
    \E t \in RespTasks :
        /\ tasks[t].pc = "done" /\ AfterOneText(tasks[t])
        /\ Len(Emitted(tasks[t].eff, {"reply"})) = 1
        /\ taken[tasks[t].session] = WaitingX(tasks[t])
        /\ storage[tasks[t].session] = WaitingX(tasks[t])

\* C3 as stated: a response looked up after another response on the session
\* found a sender, with no chat message on the session since, finds nothing
\* and sends no reply.
TakeIsDestructive ==
    \A t \in RespTasks :
        (tasks[t].session_sender # Unset /\ tasks[t].prior # None) =>
            /\ FirstFound(tasks[t]) = None
            /\ Ops(tasks[t].eff, ChatOps) = <<>>

\* C3 amended: the lookup does not consume the correlation; the second
\* lookup finds the sender the first one found, and the second response is
\* answered to that sender too.
LookupKeepsEntry ==
    \A t \in RespTasks :
        (tasks[t].session_sender # Unset /\ tasks[t].prior # None) =>
            /\ FirstFound(tasks[t]) = tasks[t].prior
            /\ (tasks[t].pc = "done" /\ ~FloatRaises(RawAmount(tasks[t]))) =>
                  /\ Len(tasks[t].eff) >= 2
                  /\ tasks[t].eff[2].op = "reply"
                  /\ tasks[t].eff[2].to = tasks[t].prior

LookupKeepsWitness ==
    \E t \in RespTasks :
        /\ tasks[t].pc = "done" /\ tasks[t].prior # None
        /\ ~FloatRaises(RawAmount(tasks[t]))
        /\ Len(Emitted(tasks[t].eff, {"reply"})) = 1

\* C4: after chat messages with text from A and then B were handled to
\* completion, each alone, on a session with no response handled in between,
\* the store holds B for the session, and the next response on it finds B
\* and sends its result (or, when the amount does not parse, its error text)
\* to B.
LastWriteWins ==
    /\ \A s \in Sessions :
          (hist[s] # <<>> /\ ~ChatInFlight(s)) => storage[s] = hist[s][Len(hist[s])].sender
    /\ \A t \in RespTasks :
          Len(tasks[t].seen) = 2 =>
              /\ FirstFound(tasks[t]) = tasks[t].seen[2].sender
              /\ \A k \in Positions(tasks[t].eff, {"reply"}) :
                    tasks[t].eff[k].to = tasks[t].seen[2].sender
              /\ FloatRaises(RawAmount(tasks[t])) =>
                    \A k \in Positions(tasks[t].eff, ChatOps) :
                        tasks[t].eff[k].to = tasks[t].seen[2].sender

LastWriteWinsWitness ==
    \E t \in RespTasks :
        /\ Len(tasks[t].seen) = 2
        /\ tasks[t].seen[1].sender # tasks[t].seen[2].sender
        /\ Len(Emitted(tasks[t].eff, {"reply"})) = 1
        /\ storage[tasks[t].session] = tasks[t].seen[2].sender

\* C5: every chat message a response handler sends on session s goes to an
\* agent whose chat message was received on session s before; so never to a
\* sender known only from another session, and never to the extraction agent.
NoCrossTalk ==
    \A t \in RespTasks :
        \A k \in Positions(tasks[t].eff, ChatOps) :
            /\ tasks[t].eff[k].to \in chatted[tasks[t].session]
            /\ tasks[t].eff[k].to # tasks[t].sender
            /\ tasks[t].eff[k].to # AI_AGENT_ADDRESS

\* A reply went out on one session while another session has a different
\* sender waiting.
NoCrossTalkWitness ==
    \E t \in RespTasks : \E s \in Sessions :
        /\ s # tasks[t].session
        /\ Len(Emitted(tasks[t].eff, {"reply"})) = 1
        /\ storage[s] # None
        /\ storage[s] # storage[tasks[t].session]
        /\ chatted[s] \cap chatted[tasks[t].session] = {}

\* C6: a response whose lookup finds no waiting sender sends nothing to
\* anyone, on the normal path and in the except block.
CorrelationLossSilent ==
    \A t \in RespTasks :
        tasks[t].session_sender = None => Ops(tasks[t].eff, SendOps) = <<>>

\* Two responses found nobody waiting: one after its calculation, one in the
\* except block after its amount failed to parse.
CorrelationLossWitness ==
    \E t \in RespTasks : \E u \in RespTasks :
        /\ tasks[t].pc = "done" /\ tasks[t].session_sender = None
        /\ ~FloatRaises(RawAmount(tasks[t]))
        /\ tasks[u].pc = "done" /\ tasks[u].session_sender = None
        /\ FloatRaises(RawAmount(tasks[u]))

\* C7 as stated: no calculation when no sender is waiting.
NoCalcWhenAbsent ==
    \A t \in RespTasks :
        tasks[t].session_sender = None => Ops(tasks[t].eff, {"calc"}) = <<>>

\* C7 amended: whenever the amount parses the calculation is invoked once,
\* before the presence check and keyed "unknown" when nobody is waiting; only
\* the sends depend on a waiting sender.  When the amount does not parse
\* there is no calculation.
CalcBeforePresenceCheck ==
    \A t \in RespTasks :
        tasks[t].pc # "start" =>
            /\ ~FloatRaises(RawAmount(tasks[t])) =>
                  /\ Len(Ops(tasks[t].eff, {"calc"})) = 1
                  /\ tasks[t].eff[1].op = "calc"
                  /\ tasks[t].eff[1].to[2] \in Senders \cup {"unknown"}
                  /\ tasks[t].session_sender = None =>
                        tasks[t].eff[1].to = ThreadKey("unknown")
            /\ FloatRaises(RawAmount(tasks[t])) => Ops(tasks[t].eff, {"calc"}) = <<>>
            /\ Ops(tasks[t].eff, SendOps) # <<>> => tasks[t].session_sender \in Senders

CalcWhenAbsentWitness ==
    \E t \in RespTasks :
        /\ tasks[t].pc = "done"
        /\ tasks[t].session_sender = None
        /\ Len(Ops(tasks[t].eff, {"calc"})) = 1

\* C8: in the delegated chat handler every StructuredOutputPrompt send comes
\* after the emitted acknowledgement of the same message.
AckBeforePrompt ==
    \A t \in ChatTasks :
        \A k \in Positions(tasks[t].eff, {"prompt"}) :
            \E j \in 1..(k - 1) : tasks[t].eff[j].op = "ack" /\ tasks[t].eff[j].ok

AckBeforePromptWitness ==
    \E t \in ChatTasks :
        /\ tasks[t].pc = "done"
        /\ Len(Emitted(tasks[t].eff, {"prompt"})) = 2

\* C9 as stated: the acknowledgement is the first effect of a chat handler.
AckIsFirstEffect ==
    \A t \in ChatTasks : tasks[t].eff # <<>> => tasks[t].eff[1].op = "ack"

\* C9 amended: the acknowledgement is the first message a chat handler
\* sends; the delegated handler writes the store entry session -> sender
\* once before it, and once more before each extraction request.
AckIsFirstSend ==
    \A t \in ChatTasks :
        LET eff == tasks[t].eff
            sends == Positions(eff, SendOps)
        IN  /\ \A k \in sends : (\A j \in sends : k <= j) => eff[k].op = "ack"
            /\ (deployment # "structured" /\ eff # <<>>) => eff[1].op = "ack"
            /\ (deployment = "structured" /\ eff # <<>>) =>
                  /\ eff[1] = Effect("set", tasks[t].session, tasks[t].sender, TRUE)
                  /\ eff[2].op = "ack"
                  /\ \A k \in Positions(eff, {"prompt"}) :
                        eff[k - 1] = Effect("set", tasks[t].session, tasks[t].sender, TRUE)
                  /\ \A k \in Positions(eff, {"set"}) :
                        k = 1 \/ (k < Len(eff) /\ eff[k + 1].op = "prompt")

AckIsFirstSendWitness ==
    \E t \in ChatTasks :
        /\ deployment = "structured"
        /\ Len(tasks[t].eff) = 4
        /\ tasks[t].eff[1].op = "set" /\ tasks[t].eff[2].op = "ack"
        /\ tasks[t].eff[3].op = "set" /\ tasks[t].eff[4].op = "prompt"

\* C10 as stated: a chat message without text parts produces only the
\* acknowledgement; the store is not written.
ZeroTextOnlyAck ==
    \A t \in ChatTasks :
        (TextCount(tasks[t].content) = 0 /\ tasks[t].pc = "done") =>
            /\ Len(tasks[t].eff) = 1
            /\ tasks[t].eff[1].op = "ack"

\* C10 amended: a chat message without text parts sends only the
\* acknowledgement, dispatches no extraction request and invokes no
\* calculation; the direct-mode handlers do nothing else, while the delegated
\* handler also writes the store entry session -> sender, with no delegation
\* dispatched.
ZeroTextAckAndEntry ==
    \A t \in ChatTasks :
        (TextCount(tasks[t].content) = 0 /\ tasks[t].pc # "start") =>
            /\ tasks[t].pc = "done"
            /\ Ops(tasks[t].eff, SendOps \cup {"calc"}) =
                  <<Effect("ack", tasks[t].sender, tasks[t].msg_id, TRUE)>>
            /\ deployment # "structured" => Len(tasks[t].eff) = 1
            /\ deployment = "structured" =>
                  /\ tasks[t].eff = <<Effect("set", tasks[t].session, tasks[t].sender, TRUE),
                                      Effect("ack", tasks[t].sender, tasks[t].msg_id, TRUE)>>
                  /\ tasks[t].solo => storage[tasks[t].session] = tasks[t].sender

\* The delegated handler finished a message without text parts on a session
\* that had no entry, and the session now has one.
ZeroTextWitness ==
    \E t \in ChatTasks :
        /\ deployment = "structured"
        /\ TextCount(tasks[t].content) = 0 /\ tasks[t].pc = "done"
        /\ chatted[tasks[t].session] = {tasks[t].sender}
        /\ storage[tasks[t].session] = tasks[t].sender
        /\ delivered = 1

\* C11: a chat handler that ends normally, every send accepted, has
\* dispatched one extraction request (delegated mode) or emitted one chat
\* reply (direct mode) for each TextContent part of the message, also when
\* the collaborator failed on an earlier part.
EveryTextPartProcessed ==
    \A t \in ChatTasks :
        (tasks[t].pc = "done" /\ AllAccepted(tasks[t].eff)) =>
            IF deployment = "structured"
            THEN Len(Emitted(tasks[t].eff, {"prompt"})) = TextCount(tasks[t].content)
            ELSE Len(Emitted(tasks[t].eff, ChatOps)) = TextCount(tasks[t].content)

\* C12: when the collaborator fails, the failure is turned into one chat
\* reply with a non-empty error text.  Direct mode: the failed call is
\* followed by one error send to the sender of the message, and an exception
\* leaves the handler only if the transport refuses that send.  Delegated
\* mode: perform_currency_calculation returns the error text, and a response
\* with a waiting sender ends with exactly that text sent to the sender.
ErrorContained ==
    /\ ERRORTEXT # ""
    /\ \A t \in ChatTasks :
          (deployment # "structured" /\ tasks[t].pc = "faulted") => ~AllAccepted(tasks[t].eff)
    /\ \A t \in ChatTasks : \A k \in 1..Len(tasks[t].eff) :
          LET eff == tasks[t].eff
          IN  (eff[k].op = "calc" /\ ~eff[k].ok) =>
                 /\ k = Len(eff) => tasks[t].pc = "except"
                 /\ k < Len(eff) =>
                       /\ eff[k + 1].op = "error" /\ eff[k + 1].to = tasks[t].sender
                       /\ eff[k + 1].ref = ERRORTEXT
                       /\ k + 1 < Len(eff) => eff[k + 2].op = "calc"
    /\ \A t \in RespTasks :
          LET r == tasks[t]
          IN  (r.eff # <<>> /\ r.eff[1].op = "calc" /\ ~r.eff[1].ok) =>
                 /\ r.result = ERRORTEXT
                 /\ r.pc \in {"except", "faulted"} => ~AllAccepted(r.eff)
                 /\ (r.pc = "done" /\ r.session_sender \in Senders /\ AllAccepted(r.eff)) =>
                       r.eff = <<r.eff[1], Effect("reply", r.session_sender, ERRORTEXT, TRUE)>>

\* A response with a waiting sender whose calculation failed has ended with
\* the error text sent to that sender.
ErrorContainedWitness ==
    \E t \in RespTasks :
        /\ tasks[t].pc = "done" /\ Len(tasks[t].eff) = 2
        /\ ~tasks[t].eff[1].ok
        /\ tasks[t].eff[2] = Effect("reply", storage[tasks[t].session], ERRORTEXT, TRUE)
        /\ storage[tasks[t].session] \in Senders

\* The handler of the response has gone past its first segment.
Extracted(r) == r.pc \in {"reply", "except", "done", "faulted"}

\* The amount is present and float() cannot convert it.
BadAmount(output) ==
    "amount" \in DOMAIN output /\ output["amount"] \in {Str("abc"), Null}

\* C13 as stated: whatever the output mapping holds, a response with a
\* waiting sender ends with a calculation made and its result sent to the
\* sender, never an error message.
MalformedMasked ==
    \A t \in RespTasks :
        (tasks[t].pc = "done" /\ storage[tasks[t].session] \in Senders
            /\ AllAccepted(tasks[t].eff)) =>
            /\ Len(tasks[t].eff) = 2
            /\ tasks[t].eff[1].op = "calc"
            /\ tasks[t].eff[2].op = "reply"

\* C13 amended: a missing field is masked by its default and a convertible
\* amount is converted; an amount that is present and not convertible
\* (non-numeric text, null) makes no calculation and is surfaced: the waiting
\* sender gets an error message, and nothing is sent when no sender waits.
MalformedAmountSurfaces ==
    \A t \in RespTasks :
        LET r == tasks[t]
        IN  Extracted(r) =>
              IF BadAmount(r.output)
              THEN /\ Ops(r.eff, {"calc", "reply"}) = <<>>
                   /\ r.pc \in {"except", "done", "faulted"}
                   /\ (r.pc = "done" /\ storage[r.session] \in Senders) =>
                         r.eff = <<Effect("error", storage[r.session], ERRORTEXT, TRUE)>>
                   /\ (r.pc = "done" /\ storage[r.session] = None) => r.eff = <<>>
              ELSE /\ r.eff # <<>> /\ r.eff[1].op = "calc"
                   /\ r.eff[1].ref[3] \in {Num(1), Num(5), Num(100)}
                   /\ (r.pc = "done" /\ storage[r.session] \in Senders /\ r.eff[2].ok) =>
                         r.eff[2] = Effect("reply", storage[r.session], r.result, TRUE)

\* A response whose amount is null has ended with the error message sent to
\* the waiting sender and no calculation.
MalformedAmountWitness ==
    \E t \in RespTasks :
        /\ tasks[t].pc = "done"
        /\ "amount" \in DOMAIN tasks[t].output /\ tasks[t].output["amount"] = Null
        /\ tasks[t].eff = <<Effect("error", storage[tasks[t].session], ERRORTEXT, TRUE)>>

\* C14: the calculation is made with each field of the output mapping, or
\* with that field's own default when it is absent: USD, EUR and 1.0 for an
\* empty mapping, and a field that is present keeps its value whichever
\* other fields are absent.
DefaultsIndependent ==
    \A t \in RespTasks :
        LET r == tasks[t]
            o == r.output
        IN  /\ (Extracted(r) /\ "amount" \notin DOMAIN o) =>
                  r.eff # <<>> /\ r.eff[1].op = "calc"
            /\ (r.eff # <<>> /\ r.eff[1].op = "calc") =>
                  /\ r.eff[1].ref[1] =
                        IF "currency_from" \in DOMAIN o THEN o["currency_from"] ELSE Str("USD")
                  /\ r.eff[1].ref[2] =
                        IF "currency_to" \in DOMAIN o THEN o["currency_to"] ELSE Str("EUR")
                  /\ r.eff[1].ref[3] =
                        IF "amount" \notin DOMAIN o THEN Num(1)
                        ELSE IF o["amount"] = Str("5") THEN Num(5)
                        ELSE o["amount"]
                  /\ DOMAIN o = {} => r.eff[1].ref = <<Str("USD"), Str("EUR"), Num(1)>>

\* A response that holds only currency_to was calculated with that value and
\* the defaults of the two other fields.
DefaultsIndependentWitness ==
    \E t \in RespTasks :
        /\ DOMAIN tasks[t].output = {"currency_to"}
        /\ tasks[t].eff # <<>>
        /\ tasks[t].eff[1].op = "calc"
        /\ tasks[t].eff[1].ref = <<Str("USD"), Str("JPY"), Num(1)>>

\* C15: whatever fails while a chat handler processes a text part (the
\* collaborator call, the reply send, the dispatch of the extraction
\* request), the handler enters its except block and its next effect is an
\* error text sent to the sender of the message; the failure does not leave
\* the handler.
PartErrorsCaught ==
    \A t \in ChatTasks : \A k \in 1..Len(tasks[t].eff) :
        LET eff == tasks[t].eff
        IN  (eff[k].op \in {"calc", "prompt", "reply"} /\ ~eff[k].ok) =>
               /\ k = Len(eff) => tasks[t].pc = "except"
               /\ k < Len(eff) =>
                     eff[k + 1].op = "error" /\ eff[k + 1].to = tasks[t].sender

\* The context keys of the collaborator calls a task has made.
CalcKeys(r) == {r.eff[k].to : k \in Positions(r.eff, {"calc"})}

\* C16 as stated: the key of a collaborator call is determined by the
\* session: calls made for one session share their key and calls made for
\* different sessions do not.
KeyedBySession ==
    \A t, u \in Slots : \A kt \in CalcKeys(tasks[t]), ku \in CalcKeys(tasks[u]) :
        (tasks[t].session = tasks[u].session) <=> (kt = ku)

\* C16 amended: only CurrencyUAgent keys the collaborator by the session.
\* The simple agent keys it by the sender of the chat message, and the
\* delegated agent by the waiting sender its lookup found, or "unknown" when
\* it found none, whichever the session.
KeyedBySenderOrSession ==
    /\ \A t \in ChatTasks : \A key \in CalcKeys(tasks[t]) :
          /\ deployment = "simple" => key = <<"chat", tasks[t].sender>>
          /\ deployment = "uagent" => key = <<"session", tasks[t].session>>
    /\ \A t \in RespTasks :
          LET r == tasks[t]
          IN  (CalcKeys(r) # {} /\ Ops(r.eff, {"error"}) = <<>>) =>
                 CalcKeys(r) = {<<"chat", IF r.session_sender \in Senders
                                          THEN r.session_sender ELSE "unknown">>}

\* Two responses of one session were calculated under different keys.
KeyedBySenderWitness ==
    \E t, u \in RespTasks :
        /\ tasks[t].session = tasks[u].session
        /\ CalcKeys(tasks[t]) = {<<"chat", "A">>}
        /\ CalcKeys(tasks[u]) = {<<"chat", "unknown">>}

\* C17: nothing times out or cancels an outstanding delegation.  In every
\* step of the delegated agent a store entry that is present stays present,
\* an entry changes only in a step of a chat handler on its own session, to
\* the sender of that chat message, and a reply or failure notice is sent
\* only in a step of a response handler.  A session that gets neither a new
\* chat message nor a response therefore keeps its entry and its sender is
\* sent nothing.
NoCancellation ==
    [][deployment = "structured" =>
          /\ \A s \in Sessions :
                /\ storage[s] # None => storage'[s] # None
                /\ storage'[s] # storage[s] =>
                      \E t \in Slots :
                          /\ tasks[t].kind = "chat" /\ tasks[t].session = s
                          /\ tasks'[t].eff # tasks[t].eff
                          /\ storage'[s] = tasks[t].sender
          /\ \A t \in Slots :
                Len(Ops(tasks'[t].eff, ChatOps)) > Len(Ops(tasks[t].eff, ChatOps)) =>
                    tasks[t].kind = "resp"]_vars

\* An extraction request of A was dispatched on s1, no response was looked
\* up since, no handler is running, no further message can arrive, and the
\* entry of s1 still names A.
NoCancellationWitness ==
    /\ deployment = "structured"
    /\ \A t \in Slots : ~InFlight(t)
    /\ delivered = MaxMsgs
    /\ hist["s1"] # <<>> /\ hist["s1"][Len(hist["s1"])].sender = "A"
    /\ taken["s1"] = None
    /\ storage["s1"] = "A"

\* C19: the modes are exclusive per deployment.  A direct-mode agent never
\* writes the session store, dispatches no extraction request and handles no
\* response; the delegated chat handler makes no calculation and sends no
\* reply, so that in delegated mode every reply comes from a response
\* handler.
ModesExclusive ==
    /\ deployment # "structured" =>
          /\ storage = [s \in Sessions |-> None]
          /\ RespTasks = {}
          /\ \A t \in ChatTasks : Ops(tasks[t].eff, {"set", "prompt"}) = <<>>
    /\ deployment = "structured" =>
          /\ \A t \in ChatTasks : Ops(tasks[t].eff, {"calc", "reply", "error"}) = <<>>
          /\ \A t \in Slots :
                Ops(tasks[t].eff, {"calc", "reply", "error"}) # <<>> => tasks[t].kind = "resp"

\* The simple agent has answered both text parts of a message by itself,
\* with the store empty and nothing dispatched.
ModesExclusiveWitness ==
    \E t \in ChatTasks :
        /\ deployment = "simple"
        /\ tasks[t].pc = "done"
        /\ Len(Emitted(tasks[t].eff, {"reply"})) = 2
        /\ Ops(tasks[t].eff, {"set", "prompt"}) = <<>>
        /\ storage = [s \in Sessions |-> None]

\* C20: handling a ChatAcknowledgement changes nothing and sends nothing.  A
\* step in which a message is delivered and no handler task begins is the
\* handling of an acknowledgement; it leaves the store and every task, with
\* the messages it has emitted, as they were, in all three agents.
AckChangesNothing ==
    [][(/\ delivered' = delivered + 1
        /\ \A t \in Slots : ~InFlight(t) => tasks'[t] = Idle) =>
          /\ storage' = storage
          /\ tasks' = tasks
          /\ deployment' = deployment]_vars

\* The only message the simple agent has received was an acknowledgement:
\* nothing is stored, running or recorded.
AckChangesNothingWitness ==
    /\ deployment = "simple"
    /\ delivered = 1
    /\ chatted = [s \in Sessions |-> {}]
    /\ \A t \in Slots : ~InFlight(t)
    /\ storage = [s \in Sessions |-> None]

\* A chat message of sender x with a text part is being handled.
Asked(x) ==
    \E t \in ChatTasks : tasks[t].sender = x /\ TextCount(tasks[t].content) > 0

\* A response handler has sent x a chat reply, a result or an error text.
Replied(x) ==
    \E t \in RespTasks : \E k \in Positions(tasks[t].eff, ChatOps) :
        tasks[t].eff[k].ok /\ tasks[t].eff[k].to = x

\* C18: in delegated mode, with every request answered on its session,
\* every send accepted and every handler step eventually taken, a sender
\* whose chat message with a text part is being handled is eventually sent
\* a chat reply.
AskedLeadsToReplied == \A x \in Senders : Asked(x) ~> Replied(x)

\* C21: store operations of one session leave the entries of the other
\* sessions alone.  In every step, a handler task that takes the step
\* changes at most the entry keyed by its own session, and a step that is no
\* handler segment (a delivery, a return) changes no entry, whatever other
\* tasks are suspended meanwhile.
StoreIsolation ==
    [][/\ \A t \in Slots :
             (InFlight(t) /\ tasks'[t] # tasks[t]) =>
                 \A s \in Sessions \ {tasks[t].session} : storage'[s] = storage[s]
       /\ (\A t \in Slots : InFlight(t) => tasks'[t] \in {tasks[t], Idle}) =>
             storage' = storage]_vars

\* A chat handler on one session has written its entry while it and a chat
\* handler on the other session are suspended, and the other session's entry
\* names the other sender.
StoreIsolationWitness ==
    \E t, u \in ChatTasks :
        /\ tasks[t].session # tasks[u].session
        /\ tasks[t].sender # tasks[u].sender
        /\ tasks[t].pc = "loop" /\ tasks[u].pc = "loop"
        /\ storage[tasks[t].session] = tasks[t].sender
        /\ storage[tasks[u].session] = tasks[u].sender

\* The result replies a response task has emitted.
ResultReplies(r) == Emitted(r.eff, {"reply"})

\* C23: correlation is by session only.  The result of a response goes to
\* the sender its lookup found under the response's session, a sender whose
\* chat message was received on that session, whichever sender's text the
\* response was extracted from; nothing of the request takes part.
CorrelatedBySessionOnly ==
    \A t \in RespTasks :
        LET r == tasks[t]
        IN  \A k \in 1..Len(ResultReplies(r)) :
               /\ ResultReplies(r)[k].to = r.session_sender
               /\ ResultReplies(r)[k].to \in chatted[r.session]
               /\ r.origin \in chatted[r.session]

\* The mismatch: requests for A's text and then for B's text were
\* outstanding on one session, both are answered and handled, the result
\* extracted from A's text and the one from B's text have both gone to B,
\* and nothing is left that could still reply to A.
MismatchWitness ==
    \E t, u \in RespTasks :
        /\ tasks[t].session = tasks[u].session
        /\ tasks[t].origin = "A" /\ tasks[u].origin = "B"
        /\ tasks[t].pc = "done" /\ tasks[u].pc = "done"
        /\ Len(ResultReplies(tasks[t])) = 1 /\ ResultReplies(tasks[t])[1].to = "B"
        /\ Len(ResultReplies(tasks[u])) = 1 /\ ResultReplies(tasks[u])[1].to = "B"
        /\ \A s \in Sessions, x \in Senders : pending[s][x] = 0

\* C24: two chat messages were received on one session, the one in slot 1
\* first and the one in slot 2 while the handler of the first was suspended
\* at its acknowledgement send; once both handlers have completed, the entry
\* of the session names the sender of the second message.
NewerOverwritesOlder ==
    (/\ deployment = "structured"
     /\ tasks[1].kind = "chat" /\ tasks[2].kind = "chat"
     /\ tasks[1].session = tasks[2].session
     /\ tasks[1].pc = "done" /\ tasks[2].pc = "done") =>
        storage[tasks[1].session] = tasks[2].sender

\* C25: the recipient of a result reply is the waiting sender the handler
\* read before the calculation suspended it, whatever the entry of the
\* session holds by the time of the send; and a response task emits at most
\* one chat message in all.
RecipientReadBeforeCalc ==
    \A t \in RespTasks :
        LET r == tasks[t]
        IN  /\ Len(Emitted(r.eff, ChatOps)) <= 1
            /\ \A k \in Positions(r.eff, {"reply"}) :
                  /\ k = 2 /\ r.eff[1].op = "calc"
                  /\ r.eff[1].to = <<"chat", r.eff[k].to>>
                  /\ Ops(r.eff, {"error"}) = <<>> => r.eff[k].to = r.session_sender

\* The result went to A, whom the handler had read, although a chat message
\* of B overwrote the entry of the session while the calculation was in
\* progress.
RecipientWitness ==
    \E t \in RespTasks :
        /\ tasks[t].pc = "done"
        /\ Len(tasks[t].eff) = 2
        /\ tasks[t].eff[2].op = "reply" /\ tasks[t].eff[2].ok
        /\ tasks[t].eff[2].to = "A"
        /\ storage[tasks[t].session] = "B"

\* C22: a POST /currency handler makes one stream call under the key
\* "http_session" and returns a CurrencyResponse, and nothing else: no agent
\* message is sent, no entry of the session store is written, no extraction
\* request is dispatched; when the collaborator raised, the handler still
\* returns, and the text it returns is the error text.
HttpTasks == {t \in Slots : tasks[t].kind = "http"}
HttpAnswersInBand ==
    \A t \in HttpTasks :
        LET h == tasks[t]
        IN  /\ h.pc \in {"start", "done"}
            /\ Ops(h.eff, SendOps \cup {"set"}) = <<>>
            /\ storage = [s \in Sessions |-> None]
            /\ h.pc = "done" =>
                  /\ Len(h.eff) = 2
                  /\ h.eff[1].op = "calc" /\ h.eff[1].to = <<"session", "http_session">>
                  /\ h.eff[2].op = "return" /\ h.eff[2].ok
                  /\ h.eff[1].ok <=> (Stops(stream.items) \/ ~stream.raises)
                  /\ h.eff[1].ok => h.eff[2].ref \in {RESULT, UNABLE}
                  /\ ~h.eff[1].ok => h.eff[2].ref = ERRORTEXT

\* The collaborator raised during a POST /currency and the handler returned
\* the error text.
HttpErrorWitness ==
    \E t \in HttpTasks :
        /\ tasks[t].pc = "done"
        /\ stream.raises /\ ~Stops(stream.items)
        /\ tasks[t].eff[2].op = "return" /\ tasks[t].eff[2].ref = ERRORTEXT

\* C26: the text CurrencyUAgent answers with is the content of the first
\* stream item that has is_task_complete or require_user_input set, and the
\* handler takes no item after that one; when the stream ends without such
\* an item, or the content of that item is empty, the text is the fallback
\* text; so the text is never empty.  A raise of the collaborator is seen
\* only when no item before it stopped the loop.
FirstStop(items) ==
    IF \E k \in 1..Len(items) : items[k].is_task_complete \/ items[k].require_user_input
    THEN CHOOSE k \in 1..Len(items) :
            /\ items[k].is_task_complete \/ items[k].require_user_input
            /\ \A j \in 1..(k - 1) :
                  ~items[j].is_task_complete /\ ~items[j].require_user_input
    ELSE 0
ExpectedText(items) ==
    IF FirstStop(items) = 0 THEN UNABLE
    ELSE IF items[FirstStop(items)].content = "" THEN UNABLE
    ELSE items[FirstStop(items)].content
StreamTasks == {t \in Slots : tasks[t].kind \in {"chat", "query", "http"} /\ tasks[t].eff # <<>>}
FirstStoppingItemAnswers ==
    /\ stream.consumed = IF FirstStop(stream.items) = 0 THEN Len(stream.items)
                         ELSE FirstStop(stream.items)
    /\ \A t \in StreamTasks :
          LET r == tasks[t]
              n == Len(r.eff)
          IN  /\ r.eff[n].op = "calc" =>
                    r.eff[n].ok <=> (FirstStop(stream.items) # 0 \/ ~stream.raises)
              /\ r.pc = "reply" =>
                    /\ r.eff[n].op = "calc" /\ r.eff[n].ok
                    /\ r.result = ExpectedText(stream.items)
              /\ (r.eff[n].op = "reply" \/ (r.eff[n].op = "response" /\ r.eff[n - 1].op = "calc"
                                             /\ r.eff[n - 1].ok)
                  \/ (r.eff[n].op = "return" /\ r.eff[n - 1].ok)) =>
                    /\ r.eff[n].ref = ExpectedText(stream.items)
                    /\ r.eff[n].ref # ""

\* A reply whose text is the content of the first of two stopping items: an
\* item that asks for input, followed by one that completes the task with
\* another content, which the handler never took.
FirstItemWitness ==
    \E t \in StreamTasks :
        LET r == tasks[t]
        IN  /\ r.eff[Len(r.eff)].op \in {"reply", "response"} /\ r.eff[Len(r.eff)].ok
            /\ Len(stream.items) = 2 /\ stream.consumed = 1
            /\ stream.items[1].require_user_input /\ ~stream.items[1].is_task_complete
            /\ stream.items[2].is_task_complete
            /\ stream.items[1].content = RESULT /\ stream.items[2].content = ""
            /\ r.eff[Len(r.eff)].ref = RESULT

\* C27: a handle_query invocation sends one ResponseMessage, to the sender of
\* the query, whatever the collaborator's stream did: stopped at an item,
\* ended without one, or raised; after a raise the text is the error text.
\* It sends nothing else.  Only a send the transport refuses makes it try a
\* second time, with the error text, and only two refused sends leave the
\* sender without a response.
QueryTasks == {t \in Slots : tasks[t].kind = "query"}
QueryAnsweredOnce ==
    \A t \in QueryTasks :
        LET q == tasks[t]
            sent == Ops(q.eff, {"response"})
        IN  /\ Ops(q.eff, SendOps \ {"response"}) = <<>>
            /\ \A k \in 1..Len(sent) : sent[k].to = q.sender
            /\ Len(Emitted(q.eff, {"response"})) <= 1
            /\ q.pc = "done" => Len(Emitted(q.eff, {"response"})) = 1
            /\ q.pc = "faulted" => ~AllAccepted(q.eff)
            /\ (q.pc = "done" /\ AllAccepted(q.eff)) =>
                  /\ Len(q.eff) = 2 /\ q.eff[1].op = "calc" /\ q.eff[2].op = "response"
                  /\ q.eff[1].ok <=> (Stops(stream.items) \/ ~stream.raises)
                  /\ q.eff[1].ok => q.eff[2].ref \in {RESULT, UNABLE}
                  /\ ~q.eff[1].ok => q.eff[2].ref = ERRORTEXT

\* The collaborator yielded an item that does not stop the loop and then
\* raised; the sender of the query got one ResponseMessage, the error text.
QueryRaiseWitness ==
    \E t \in QueryTasks :
        /\ tasks[t].pc = "done" /\ tasks[t].sender = "B"
        /\ stream.raises /\ Len(stream.items) = 1 /\ ~Stops(stream.items)
        /\ Emitted(tasks[t].eff, {"response"}) = <<Effect("response", "B", ERRORTEXT, TRUE)>>

\* C28: start() returns True only when is_running was set, after at most
\* max_wait polls, and returns False only after max_wait polls that never saw
\* it set; the connect request is made at most once, only after is_running
\* was seen set and only with an api_token configured; the agent-info update
\* request is made at most once and only after a connect request that gave
\* status 200.
StartContract ==
    /\ boot.wait_count <= max_wait
    /\ boot.pc = "done" <=> boot.returned # None
    /\ boot.returned = "True" => boot.observed /\ boot.is_running
    /\ boot.returned = "False" =>
          /\ ~boot.observed
          /\ boot.wait_count = max_wait
          /\ boot.eff = <<>>
    /\ Len(Requests(boot.eff, "connect")) <= 1
    /\ Len(Requests(boot.eff, "update")) <= 1
    /\ boot.eff # <<>> =>
          /\ boot.eff[1].op = "connect"
          /\ boot.observed /\ boot.is_running
          /\ Truthy(boot.api_token)
    /\ Requests(boot.eff, "update") # <<>> =>
          /\ Len(boot.eff) = 2
          /\ boot.eff[1].ref = 200
          /\ boot.eff[2].op = "update"

\* start() returned True after the startup event came during the last of the
\* max_wait polls, and the registration stopped at a connect request that
\* gave another status than 200.
StartWitness ==
    /\ boot.returned = "True"
    /\ boot.wait_count = max_wait
    /\ boot.eff = <<Effect("connect", "agent", 500, TRUE)>>

====
